---------------------------- MODULE Spec2Model ----------------------------
(***************************************************************************)
(* Model of app.py, the maize disease prediction form.                     *)
(*                                                                         *)
(* Text is modelled as a sequence of one-character strings, so that        *)
(* datetime.strptime and the f-strings of the handlers are computed on the *)
(* characters.  A value that Python may leave as None (a missing form      *)
(* field, the two halves of create_features' result) is a record with a   *)
(* `none` flag.  start_date is the unpickled reference date, a datetime at *)
(* midnight, held as a [year, month, day] record.                          *)
(***************************************************************************)
EXTENDS Integers, Sequences, FiniteSets

VARIABLES
    pc,            \* position of the module-level code / the running process
    model,         \* the global `model`: "undefined" or "loaded"
    start_date,    \* the global `start_date`: NoDate while undefined
    UNIQUE_STAGES, \* the global list of stage labels
    request,       \* the request handled last
    response,      \* what the handler of that request produced
    cfCalls,       \* calls of create_features made by that request
    cfArgs,        \* arguments of the (pending or last) create_features call
    cfRet,         \* what that call returned
    predictCalls,  \* calls of model.predict made by that request
    predictArg,    \* the frame handed to model.predict
    predictOut,    \* what that call of model.predict did
    snap           \* a create_features call of some request, kept for comparison

vars == <<pc, model, start_date, UNIQUE_STAGES, request, response,
          cfCalls, cfArgs, cfRet, predictCalls, predictArg, predictOut,
          snap>>

(***************************************************************************)
(* Bounds of the model.                                                    *)
(***************************************************************************)
\* The dates enumerated for create_features run from MaxYear - 2 to MaxYear.
MaxYear == 2025

MinYear == MaxYear - 2

(***************************************************************************)
(* Python values.                                                          *)
(***************************************************************************)
None == [none |-> TRUE, s |-> <<>>]

Str(s) == [none |-> FALSE, s |-> s]

\* `not v` is true of None and of the empty string.
Falsy(v) == v.none \/ Len(v.s) = 0

NoDate == [year |-> 0, month |-> 0, day |-> 0]

NoFrame == [none |-> TRUE, rows |-> <<>>]

DigitChars == <<"0", "1", "2", "3", "4", "5", "6", "7", "8", "9">>

IsDigit(c) == \E n \in 1..10 : DigitChars[n] = c

\* int() of one digit
DigitVal(c) == (CHOOSE n \in 1..10 : DigitChars[n] = c) - 1

\* The character at position i, or "" past the end of the text.
At(s, i) == IF i >= 1 /\ i <= Len(s) THEN s[i] ELSE ""

(***************************************************************************)
(* datetime: the calendar arithmetic of the standard library.              *)
(***************************************************************************)
_is_leap(y) == y % 4 = 0 /\ (y % 100 # 0 \/ y % 400 = 0)

_DAYS_IN_MONTH == <<31, 28, 31, 30, 31, 30, 31, 31, 30, 31, 30, 31>>

_DAYS_BEFORE_MONTH == <<0, 31, 59, 90, 120, 151, 181, 212, 243, 273, 304, 334>>

_days_in_month(y, m) == IF m = 2 /\ _is_leap(y) THEN 29 ELSE _DAYS_IN_MONTH[m]

_days_before_month(y, m) ==
    _DAYS_BEFORE_MONTH[m] + (IF m > 2 /\ _is_leap(y) THEN 1 ELSE 0)

_days_before_year(y) ==
    (y - 1) * 365 + ((y - 1) \div 4) - ((y - 1) \div 100) + ((y - 1) \div 400)

toordinal(d) ==
    _days_before_year(d.year) + _days_before_month(d.year, d.month) + d.day

\* current_date.timetuple().tm_yday
tm_ydayOff(d) == _DAYS_BEFORE_MONTH[d.month] + d.day

tm_yday(d) == _days_before_month(d.year, d.month) + d.day

(***************************************************************************)
(* datetime.strptime(date_str, '%Y-%m-%d').  The format compiles to the    *)
(* regular expression                                                      *)
(*   (\d\d\d\d)-(1[0-2]|0[1-9]|[1-9])-(3[01]|[12]\d|0[1-9]|[1-9]| [1-9])   *)
(* matched at the start of the text; text left over after the match, a     *)
(* year below 1 or a day past the end of the month raise ValueError.       *)
(***************************************************************************)
\* The lengths matched at position i by the alternatives of %m, in order.
MonthAlts(s, i) ==
    (IF At(s, i) = "1" /\ At(s, i + 1) \in {"0", "1", "2"} THEN <<2>> ELSE <<>>)
    \o (IF At(s, i) = "0" /\ IsDigit(At(s, i + 1)) /\ At(s, i + 1) # "0"
        THEN <<2>> ELSE <<>>)
    \o (IF IsDigit(At(s, i)) /\ At(s, i) # "0" THEN <<1>> ELSE <<>>)

\* The lengths matched at position i by the alternatives of %d, in order.
DayAlts(s, i) ==
    (IF At(s, i) = "3" /\ At(s, i + 1) \in {"0", "1"} THEN <<2>> ELSE <<>>)
    \o (IF At(s, i) \in {"1", "2"} /\ IsDigit(At(s, i + 1)) THEN <<2>> ELSE <<>>)
    \o (IF At(s, i) = "0" /\ IsDigit(At(s, i + 1)) /\ At(s, i + 1) # "0"
        THEN <<2>> ELSE <<>>)
    \o (IF IsDigit(At(s, i)) /\ At(s, i) # "0" THEN <<1>> ELSE <<>>)
    \o (IF At(s, i) = " " /\ IsDigit(At(s, i + 1)) /\ At(s, i + 1) # "0"
        THEN <<2>> ELSE <<>>)

\* int() of a matched group of one or two characters (int strips the blank).
GroupVal(s, i, len) ==
    IF len = 1 THEN DigitVal(s[i])
    ELSE IF s[i] = " " THEN DigitVal(s[i + 1])
    ELSE 10 * DigitVal(s[i]) + DigitVal(s[i + 1])

\* The month alternatives after which "-" and a day match: the regular
\* expression backtracks over the alternatives in order.
MonthFits(s) ==
    SelectSeq(MonthAlts(s, 6),
              LAMBDA len : At(s, 6 + len) = "-" /\ DayAlts(s, 7 + len) # <<>>)

\* re.match: whether the expression matches, the groups and where it ends.
re_match(s) ==
    LET yearOk == \A i \in 1..4 : IsDigit(At(s, i))
        found  == yearOk /\ At(s, 5) = "-" /\ MonthFits(s) # <<>>
        mlen   == Head(MonthFits(s))
        dlen   == Head(DayAlts(s, 7 + mlen))
    IN  IF ~found THEN [found |-> FALSE, date |-> NoDate, end |-> 0]
        ELSE [found |-> TRUE,
              date  |-> [year  |-> 1000 * DigitVal(s[1]) + 100 * DigitVal(s[2])
                                   + 10 * DigitVal(s[3]) + DigitVal(s[4]),
                         month |-> GroupVal(s, 6, mlen),
                         day   |-> GroupVal(s, 7 + mlen, dlen)],
              end   |-> 6 + mlen + dlen]

\* [ok |-> FALSE] stands for ValueError.
strptime(s) ==
    LET m == re_match(s)
    IN  IF /\ m.found
           /\ m.end = Len(s)
           /\ m.date.year >= 1
           /\ m.date.day <= _days_in_month(m.date.year, m.date.month)
        THEN [ok |-> TRUE, date |-> m.date]
        ELSE [ok |-> FALSE, date |-> NoDate]

(***************************************************************************)
(* create_features                                                         *)
(***************************************************************************)
InvalidDateMessage == <<"I", "n", "v", "a", "l", "i", "d", " ", "d", "a", "t", "e", " ", "f", "o", "r", "m", "a", "t", ".", " ", "P", "l", "e", "a", "s", "e", " ", "u", "s", "e", " ", "Y", "Y", "Y", "Y", "-", "M", "M", "-", "D", "D", ".">>

\* (current_date - start_date).days, both at midnight
days_since_startAbs(current_date) ==
    IF toordinal(current_date) >= toordinal(start_date)
    THEN toordinal(current_date) - toordinal(start_date)
    ELSE toordinal(start_date) - toordinal(current_date)

\* (a variant reading the date parsed by the call before instead)
days_since_startStale(current_date) ==
    toordinal(current_date)
    - toordinal(IF cfCalls = 1 /\ strptime(cfArgs.date_str).ok
                THEN strptime(cfArgs.date_str).date
                ELSE start_date)

days_since_start(current_date) ==
    toordinal(current_date) - toordinal(start_date)

\* (a variant that refuses a stage outside UNIQUE_STAGES)
create_featuresEnum(date_str, stage) ==
    LET parsed == strptime(date_str)
    IN  IF ~parsed.ok \/ ~(\E i \in 1..Len(UNIQUE_STAGES) : UNIQUE_STAGES[i] = stage)
        THEN [data |-> NoFrame, error_message |-> Str(InvalidDateMessage)]
        ELSE [data |-> [none |-> FALSE,
                        rows |-> << [Stage          |-> stage,
                                     DayOfYear      |-> tm_yday(parsed.date),
                                     DaysSinceStart |-> days_since_start(parsed.date)] >>],
              error_message |-> None]

\* The one-row DataFrame / error pair that create_features returns.
create_features(date_str, stage) ==
    LET parsed == strptime(date_str)
    IN  IF ~parsed.ok
        THEN [data |-> NoFrame, error_message |-> Str(InvalidDateMessage)]
        ELSE [data |-> [none |-> FALSE,
                        rows |-> << [Stage          |-> stage,
                                     DayOfYear      |-> tm_yday(parsed.date),
                                     DaysSinceStart |-> days_since_start(parsed.date)] >>],
              error_message |-> None]


(***************************************************************************)
(* The inputs the model draws from.                                        *)
(***************************************************************************)
Pad2(n) == <<DigitChars[(n \div 10) + 1], DigitChars[(n % 10) + 1]>>

Pad4(n) == Pad2(n \div 100) \o Pad2(n % 100)

\* A number below 100 without a leading zero.
Bare(n) == IF n < 10 THEN <<DigitChars[n + 1]>> ELSE Pad2(n)

IsoText(y, m, d) == Pad4(y) \o <<"-">> \o Pad2(m) \o <<"-">> \o Pad2(d)

\* Every zero-padded text of the years of the model, month 00 and 13 and
\* day 00 and 32 included.
GridDates == { IsoText(y, m, d) : y \in MinYear..MaxYear, m \in 0..13, d \in 0..32 }

\* Texts without zero padding, and with a blank for the day's zero.
ShortDates ==
    { Pad4(MaxYear - 1) \o <<"-">> \o Bare(m) \o <<"-">> \o Bare(d) :
        m \in {2, 3, 11}, d \in {5, 29, 30} }
    \cup { Pad4(MaxYear - 1) \o <<"-">> \o Pad2(m) \o <<" ">> \o Bare(d) :
        m \in {2, 3}, d \in {5, 29} }
    \cup { Pad4(MaxYear - 1) \o <<"-">> \o Pad2(m) \o <<"-", " ">> \o Bare(d) :
        m \in {2, 3}, d \in {5, 29} }

\* Texts in other formats, and dates in century years.
OddDates ==
    { <<>>, <<"1", "5", "-", "0", "3", "-", "2", "0", "2", "4">>, <<"2", "0", "2", "4", "/", "0", "3", "/", "1", "5">>, <<"2", "0", "2", "4", "-", "0", "3", "-", "1", "5", "0">>, <<"2", "0", "2", "4", "-", "0", "3", "-", "1", "5", " ">>,
      <<" ", "2", "0", "2", "4", "-", "0", "3", "-", "1", "5">>, <<"0", "2", "0", "2", "4", "-", "0", "3", "-", "1", "5">>, <<"2", "4", "-", "0", "3", "-", "1", "5">>, <<"2", "0", "2", "4", "-", "0", "3">>, <<"2", "0", "2", "4", "-", "0", "3", "-", "1", "x">>,
      <<"Y", "Y", "Y", "Y", "-", "M", "M", "-", "D", "D">>, <<"0", "0", "0", "0", "-", "0", "1", "-", "0", "1">>, <<"2", "0", "2", "4", "-", "0", "-", "5">>, <<"2", "0", "2", "4", "-", "-", "0", "5">>,
      <<"1", "9", "0", "0", "-", "0", "2", "-", "2", "8">>, <<"1", "9", "0", "0", "-", "0", "2", "-", "2", "9">>, <<"1", "9", "0", "0", "-", "0", "3", "-", "0", "1">>, <<"1", "9", "0", "0", "-", "1", "2", "-", "3", "1">>,
      <<"2", "0", "0", "0", "-", "0", "2", "-", "2", "9">>, <<"2", "0", "0", "0", "-", "0", "3", "-", "0", "1">>, <<"2", "0", "0", "0", "-", "1", "2", "-", "3", "1">>, <<"2", "1", "0", "0", "-", "0", "2", "-", "2", "9">>,
      <<"2", "1", "0", "0", "-", "0", "3", "-", "0", "1">> }

BuildDates == GridDates \cup ShortDates \cup OddDates

BuildStages == { <<"S", "e", "e", "d", "l", "i", "n", "g">>, <<>>, <<"F", "l", "o", "w", "e", "r", "i", "n", "g">> }

\* The reference dates start_date.joblib may hold.
StartDates ==
    { [year |-> 2024, month |-> 1, day |-> 1],
      [year |-> 2024, month |-> 2, day |-> 29] }

\* The values request.form.get returns for date_input.
DateInputs ==
    { None, Str(<<>>), Str(<<"2", "0", "2", "4", "-", "0", "3", "-", "1", "5">>), Str(<<"2", "0", "2", "4", "-", "0", "1", "-", "0", "1">>),
      Str(<<"2", "0", "2", "3", "-", "1", "2", "-", "3", "1">>), Str(<<"2", "0", "2", "4", "-", "3", "-", "5">>), Str(<<"2", "0", "2", "4", "-", "0", "3", "-", " ", "5">>),
      Str(<<"1", "5", "-", "0", "3", "-", "2", "0", "2", "4">>), Str(<<"2", "0", "2", "4", "-", "0", "2", "-", "3", "0">>), Str(<<"Y", "Y", "Y", "Y", "-", "M", "M", "-", "D", "D">>) }

\* The values request.form.get returns for stage_input.
StageInputs ==
    { None, Str(<<>>), Str(<<"S", "e", "e", "d", "l", "i", "n", "g">>), Str(<<"F", "l", "o", "w", "e", "r", "i", "n", "g">>) }

\* What model.predict does with a frame: it returns one label per row, or raises.
ClassifierOutcomes ==
    { [raises |-> FALSE, output |-> << <<"C", "o", "m", "m", "o", "n", " ", "R", "u", "s", "t">> >>],
      [raises |-> FALSE, output |-> << <<"H", "e", "a", "l", "t", "h", "y">> >>],
      [raises |-> TRUE,  output |-> << >>] }

(***************************************************************************)
(* Module level: loading the artifacts.                                    *)
(***************************************************************************)
SixStages ==
    << <<"G", "e", "r", "m", "i", "n", "a", "t", "i", "o", "n">>, <<"S", "e", "e", "d", "l", "i", "n", "g">>, <<"V", "e", "g", "e", "t", "a", "t", "i", "v", "e", " ", "G", "r", "o", "w", "t", "h">>,
       <<"T", "a", "s", "s", "e", "l", "i", "n", "g", " ", "&", " ", "P", "o", "l", "l", "i", "n", "a", "t", "i", "o", "n">>, <<"G", "r", "a", "i", "n", " ", "F", "i", "l", "l", "i", "n", "g">>, <<"M", "a", "t", "u", "r", "i", "t", "y", " ", "&", " ", "H", "a", "r", "v", "e", "s", "t">> >>

NoRequest == [route |-> "", method |-> "", date_input |-> None, stage_input |-> None]

NoResponse ==
    [kind |-> "none", stages |-> <<>>, prediction_text |-> <<>>,
     date_val |-> None, stage_val |-> None]

NoArgs == [date_str |-> <<>>, stage |-> <<>>]

NoRet == [data |-> NoFrame, error_message |-> None]

\* model.predict was not called.
NoOutcome == [raises |-> FALSE, output |-> << >>]

Init ==
    /\ pc = "load_model"
    /\ model = "undefined"
    /\ start_date = NoDate
    /\ UNIQUE_STAGES = <<>>
    /\ request = NoRequest
    /\ response = NoResponse
    /\ cfCalls = 0
    /\ cfArgs = NoArgs
    /\ cfRet = NoRet
    /\ predictCalls = 0
    /\ predictArg = NoFrame
    /\ predictOut = NoOutcome
    /\ snap = <<>>

\* Where the module-level code goes when a load raises FileNotFoundError:
\* the handler prints and calls exit().
AfterFileNotFoundFallThrough == "define_stages"

AfterFileNotFound == "exited"

\* Any other exception of joblib.load is not caught: the import fails.
AfterOtherError == "crashed"

\* model = joblib.load('maize_disease_model.joblib')
LoadModel ==
    /\ pc = "load_model"
    /\ \/ /\ model' = "loaded"
          /\ pc' = "load_start_date"
       \/ /\ model' = model
          /\ pc' = AfterFileNotFound
       \/ /\ model' = model
          /\ pc' = AfterOtherError
    /\ UNCHANGED <<start_date, UNIQUE_STAGES, request, response, cfCalls,
                   cfArgs, cfRet, predictCalls, predictArg, predictOut, snap>>

\* start_date = joblib.load('start_date.joblib')
LoadStartDate ==
    /\ pc = "load_start_date"
    /\ \/ /\ start_date' \in StartDates
          /\ pc' = "define_stages"
       \/ /\ start_date' = start_date
          /\ pc' = AfterFileNotFound
       \/ /\ start_date' = start_date
          /\ pc' = AfterOtherError
    /\ UNCHANGED <<model, UNIQUE_STAGES, request, response, cfCalls,
                   cfArgs, cfRet, predictCalls, predictArg, predictOut, snap>>

\* UNIQUE_STAGES = [...], the routes, and app.run(): requests are served.
RunApp ==
    /\ pc = "define_stages"
    /\ UNIQUE_STAGES' = SixStages
    /\ pc' = "serving"
    /\ UNCHANGED <<model, start_date, request, response, cfCalls,
                   cfArgs, cfRet, predictCalls, predictArg, predictOut, snap>>

(***************************************************************************)
(* The routes.                                                             *)
(***************************************************************************)
\* render_template('index.html', stages=UNIQUE_STAGES, prediction_text=...,
\* date_val=..., stage_val=...)
render_template(text, date_val, stage_val) ==
    [kind |-> "render", stages |-> UNIQUE_STAGES, prediction_text |-> text,
     date_val |-> date_val, stage_val |-> stage_val]

\* An exception leaves the handler: Flask answers with a server error.
Unhandled ==
    [kind |-> "unhandled", stages |-> <<>>, prediction_text |-> <<>>,
     date_val |-> None, stage_val |-> None]

\* The remembered call, once a later request is handled.
Aged(s) == IF s = <<>> THEN s ELSE << [s[1] EXCEPT !.later = TRUE] >>

indexStale ==
    /\ pc = "serving"
    /\ request' = [route |-> "/", method |-> "GET",
                   date_input |-> None, stage_input |-> None]
    /\ response' = render_template(response.prediction_text, None, None)
    /\ cfCalls' = 0
    /\ cfArgs' = NoArgs
    /\ cfRet' = NoRet
    /\ predictCalls' = 0
    /\ predictArg' = NoFrame
    /\ predictOut' = NoOutcome
    /\ snap' = Aged(snap)
    /\ UNCHANGED <<pc, model, start_date, UNIQUE_STAGES>>

\* GET /
index ==
    /\ pc = "serving"
    /\ request' = [route |-> "/", method |-> "GET",
                   date_input |-> None, stage_input |-> None]
    /\ response' = render_template(<<>>, None, None)
    /\ cfCalls' = 0
    /\ cfArgs' = NoArgs
    /\ cfRet' = NoRet
    /\ predictCalls' = 0
    /\ predictArg' = NoFrame
    /\ predictOut' = NoOutcome
    /\ snap' = Aged(snap)
    /\ UNCHANGED <<pc, model, start_date, UNIQUE_STAGES>>

MissingText == <<"E", "r", "r", "o", "r", ":", " ", "P", "l", "e", "a", "s", "e", " ", "p", "r", "o", "v", "i", "d", "e", " ", "b", "o", "t", "h", " ", "d", "a", "t", "e", " ", "a", "n", "d", " ", "s", "t", "a", "g", "e", ".">>

\* if not date_input or not stage_input
MissingInputBoth(date_input, stage_input) ==
    Falsy(date_input) /\ Falsy(stage_input)

MissingInput(date_input, stage_input) ==
    Falsy(date_input) \/ Falsy(stage_input)

\* if error_message
HasErrorNever(ret) == FALSE

HasError(ret) == ~Falsy(ret.error_message)

\* f"Error: {error_message}"
ErrorText(error_message) == <<"E", "r", "r", "o", "r", ":", " ">> \o error_message

\* f"The predicted disease for stage '{stage_input}' on {date_input} is: {prediction}"
ResultText(stage_input, date_input, prediction) ==
    <<"T", "h", "e", " ", "p", "r", "e", "d", "i", "c", "t", "e", "d", " ", "d", "i", "s", "e", "a", "s", "e", " ", "f", "o", "r", " ", "s", "t", "a", "g", "e", " ", "'">> \o stage_input \o <<"'", " ", "o", "n", " ">>
    \o date_input \o <<" ", "i", "s", ":", " ">> \o prediction

\* prediction = model.predict(X_new)[0] and the lines after it.
predict_tailCatch(date_input, stage_input, outcome) ==
    IF outcome.raises
    THEN render_template(<<"E", "r", "r", "o", "r", ":", " ", "p", "r", "e", "d", "i", "c", "t", "i", "o", "n", " ", "f", "a", "i", "l", "e", "d", ".">>, date_input, stage_input)
    ELSE render_template(ResultText(stage_input.s, date_input.s, outcome.output[1]),
                         date_input, stage_input)

predict_tail(date_input, stage_input, outcome) ==
    IF outcome.raises
    THEN Unhandled
    ELSE render_template(ResultText(stage_input.s, date_input.s, outcome.output[1]),
                         date_input, stage_input)

\* POST /predict
predict ==
    /\ pc = "serving"
    /\ \E date_input \in DateInputs, stage_input \in StageInputs :
         /\ request' = [route |-> "/predict", method |-> "POST",
                        date_input |-> date_input, stage_input |-> stage_input]
         /\ IF MissingInput(date_input, stage_input)
            THEN /\ response' = render_template(MissingText, date_input, stage_input)
                 /\ cfCalls' = 0
                 /\ cfArgs' = NoArgs
                 /\ cfRet' = NoRet
                 /\ predictCalls' = 0
                 /\ predictArg' = NoFrame
                 /\ predictOut' = NoOutcome
                 /\ snap' = Aged(snap)
            ELSE LET ret == create_features(date_input.s, stage_input.s)
                     args == [date_str |-> date_input.s, stage |-> stage_input.s]
                 IN  /\ cfCalls' = 1
                     /\ cfArgs' = args
                     /\ cfRet' = ret
                     /\ \/ snap' = Aged(snap)
                        \/ /\ snap = <<>>
                           /\ snap' = << [args |-> args, ret |-> ret,
                                          later |-> FALSE] >>
                     /\ IF HasError(ret)
                        THEN /\ response' =
                                  render_template(ErrorText(ret.error_message.s),
                                                  date_input, stage_input)
                             /\ predictCalls' = 0
                             /\ predictArg' = NoFrame
                             /\ predictOut' = NoOutcome
                        ELSE /\ predictCalls' = 1
                             /\ predictArg' = ret.data
                             /\ \E outcome \in ClassifierOutcomes :
                                  /\ predictOut' = outcome
                                  /\ response' = predict_tail(date_input, stage_input,
                                                              outcome)
    /\ UNCHANGED <<pc, model, start_date, UNIQUE_STAGES>>

Next == LoadModel \/ LoadStartDate \/ RunApp \/ index \/ predict

Spec == Init /\ [][Next]_vars

(***************************************************************************)
(* create_features on its own: every text of BuildDates with every stage   *)
(* of BuildStages, in a process that has loaded its artifacts.             *)
(***************************************************************************)
InitBuild ==
    /\ pc = "serving"
    /\ model = "loaded"
    /\ start_date \in StartDates
    /\ UNIQUE_STAGES = SixStages
    /\ request = NoRequest
    /\ response = NoResponse
    /\ cfCalls = 0
    /\ cfArgs \in [date_str : BuildDates, stage : BuildStages]
    /\ cfRet = NoRet
    /\ predictCalls = 0
    /\ predictArg = NoFrame
    /\ predictOut = NoOutcome
    /\ snap = <<>>

\* X_new, error_message = create_features(date_str, stage)
CallCreateFeatures ==
    /\ cfCalls = 0
    /\ cfCalls' = 1
    /\ cfRet' = create_features(cfArgs.date_str, cfArgs.stage)
    /\ UNCHANGED <<pc, model, start_date, UNIQUE_STAGES, request, response,
                   cfArgs, predictCalls, predictArg, predictOut, snap>>

NextBuild == CallCreateFeatures

SpecBuild == InitBuild /\ [][NextBuild]_vars


(***************************************************************************)
(* The calendar, as the properties below speak of it.                      *)
(***************************************************************************)
CalLeap(y) == y % 400 = 0 \/ (y % 4 = 0 /\ y % 100 # 0)

CalMonthDays(y, m) ==
    CASE m \in {4, 6, 9, 11} -> 30
      [] m = 2 -> IF CalLeap(y) THEN 29 ELSE 28
      [] OTHER -> 31

IsCalendarDate(y, m, d) ==
    y >= 1 /\ m \in 1..12 /\ d >= 1 /\ d <= CalMonthDays(y, m)

\* The 1-based position of a date among the days of its year.
OrdinalDay(date) ==
    Cardinality({ md \in (1..12) \X (1..31) :
                    /\ md[2] <= CalMonthDays(date.year, md[1])
                    /\ \/ md[1] < date.month
                       \/ md[1] = date.month /\ md[2] <= date.day })

RECURSIVE DaysOfYears(_, _)
\* The days of the years from..(to - 1).
DaysOfYears(from, to) ==
    IF from >= to THEN 0
    ELSE (IF CalLeap(from) THEN 366 ELSE 365) + DaysOfYears(from + 1, to)

\* The signed number of days from date b to date a.
SignedDays(a, b) ==
    LET epoch == IF a.year < b.year THEN a.year ELSE b.year
    IN  (DaysOfYears(epoch, a.year) + OrdinalDay(a))
        - (DaysOfYears(epoch, b.year) + OrdinalDay(b))

DateBefore(a, b) ==
    \/ a.year < b.year
    \/ a.year = b.year /\ a.month < b.month
    \/ a.year = b.year /\ a.month = b.month /\ a.day < b.day

\* The number a text of digits writes.
RECURSIVE Numeral(_)
Numeral(s) ==
    IF s = <<>> THEN 0
    ELSE 10 * Numeral(SubSeq(s, 1, Len(s) - 1)) + DigitVal(s[Len(s)])

\* A text in the form YYYY-MM-DD: four digits, two digits, two digits.
IsIsoForm(s) ==
    /\ Len(s) = 10
    /\ s[5] = "-"
    /\ s[8] = "-"
    /\ \A i \in {1, 2, 3, 4, 6, 7, 9, 10} : IsDigit(s[i])

IsoDate(s) ==
    [year  |-> Numeral(SubSeq(s, 1, 4)),
     month |-> Numeral(SubSeq(s, 6, 7)),
     day   |-> Numeral(SubSeq(s, 9, 10))]

\* A text in the form YYYY-MM-DD that names a day of the calendar.
IsIsoDate(s) ==
    /\ IsIsoForm(s)
    /\ IsCalendarDate(IsoDate(s).year, IsoDate(s).month, IsoDate(s).day)

\* Whether text `part` occurs in text `whole`.
Contains(whole, part) ==
    \E i \in 0..(Len(whole) - Len(part)) :
        SubSeq(whole, i + 1, i + Len(part)) = part

Absent(v) == v.none \/ v.s = <<>>

\* The last request was a POST /predict with both fields filled in.
FilledPost ==
    /\ request.route = "/predict"
    /\ ~Absent(request.date_input)
    /\ ~Absent(request.stage_input)

(***************************************************************************)
(* Properties.                                                             *)
(***************************************************************************)
\* C1: for every text in the form YYYY-MM-DD that names a calendar date, and
\* every stage, create_features returns a one-row record and no error, and the
\* record's DayOfYear is the 1-based ordinal day of the date in its year
\* (within 1..366).
C1_DayOfYear ==
    (cfCalls = 1 /\ IsIsoDate(cfArgs.date_str)) =>
        /\ ~cfRet.data.none
        /\ cfRet.error_message.none
        /\ Len(cfRet.data.rows) = 1
        /\ cfRet.data.rows[1].Stage = cfArgs.stage
        /\ cfRet.data.rows[1].DayOfYear = OrdinalDay(IsoDate(cfArgs.date_str))
        /\ cfRet.data.rows[1].DayOfYear \in 1..366

\* 2024-03-15 with stage Seedling and reference 2024-01-01 gives 75 and 74.
C1_Witness ==
    /\ cfCalls = 1
    /\ cfArgs = [date_str |-> <<"2", "0", "2", "4", "-", "0", "3", "-", "1", "5">>, stage |-> <<"S", "e", "e", "d", "l", "i", "n", "g">>]
    /\ start_date = [year |-> 2024, month |-> 1, day |-> 1]
    /\ cfRet.data.rows =
         << [Stage |-> <<"S", "e", "e", "d", "l", "i", "n", "g">>, DayOfYear |-> 75, DaysSinceStart |-> 74] >>

\* C2: for every valid date, DaysSinceStart is the signed number of whole days
\* from the reference start date to the date: negative before the reference
\* date, zero on it, positive after it.
C2_DaysSinceStart ==
    (cfCalls = 1 /\ IsIsoDate(cfArgs.date_str)) =>
        LET d    == IsoDate(cfArgs.date_str)
            days == cfRet.data.rows[1].DaysSinceStart
        IN  /\ ~cfRet.data.none
            /\ days = SignedDays(d, start_date)
            /\ DateBefore(d, start_date) => days < 0
            /\ d = start_date => days = 0
            /\ DateBefore(start_date, d) => days > 0

\* The last day of 2023 is one day before the reference date 2024-01-01.
C2_Witness ==
    /\ cfCalls = 1
    /\ cfArgs.date_str = <<"2", "0", "2", "3", "-", "1", "2", "-", "3", "1">>
    /\ start_date = [year |-> 2024, month |-> 1, day |-> 1]
    /\ ~cfRet.data.none
    /\ cfRet.data.rows[1].DaysSinceStart = -1

\* C3: for every date text that is not strictly YYYY-MM-DD or names no
\* calendar date, create_features returns the invalid-date error and no record,
\* and the request does not reach model.predict.
C3_MalformedRejected ==
    (FilledPost /\ ~IsIsoDate(request.date_input.s)) =>
        /\ cfCalls = 1
        /\ cfRet.data.none
        /\ cfRet.error_message = Str(<<"I", "n", "v", "a", "l", "i", "d", " ", "d", "a", "t", "e", " ", "f", "o", "r", "m", "a", "t", ".", " ", "P", "l", "e", "a", "s", "e", " ", "u", "s", "e", " ", "Y", "Y", "Y", "Y", "-", "M", "M", "-", "D", "D", ".">>)
        /\ predictCalls = 0

\* C4: a POST /predict with date_input or stage_input missing or empty renders
\* the missing-input message, whatever the other field holds, and calls
\* neither create_features nor model.predict.
C4_MissingInput ==
    (/\ request.route = "/predict"
     /\ Absent(request.date_input) \/ Absent(request.stage_input)) =>
        /\ response.kind = "render"
        /\ response.prediction_text = <<"E", "r", "r", "o", "r", ":", " ", "P", "l", "e", "a", "s", "e", " ", "p", "r", "o", "v", "i", "d", "e", " ", "b", "o", "t", "h", " ", "d", "a", "t", "e", " ", "a", "n", "d", " ", "s", "t", "a", "g", "e", ".">>
        /\ cfCalls = 0
        /\ predictCalls = 0

\* A malformed date with an empty stage: the date is never parsed.
C4_Witness ==
    /\ request.route = "/predict"
    /\ request.date_input = Str(<<"1", "5", "-", "0", "3", "-", "2", "0", "2", "4">>)
    /\ request.stage_input = Str(<<>>)
    /\ response.kind = "render"
    /\ cfCalls = 0

\* C5: a request is handled only by a process that loaded both artifacts; a
\* failed load ends the process with no request handled.
C5_NoDegradedServing ==
    /\ (response.kind # "none" \/ pc = "serving") =>
          /\ model = "loaded"
          /\ start_date \in StartDates
    /\ (model = "undefined" \/ start_date = NoDate) =>
          /\ response.kind = "none"
          /\ request = NoRequest

\* The model was loaded, the start date was not: the process has exited.
C5_Witness ==
    /\ pc = "exited"
    /\ model = "loaded"
    /\ start_date = NoDate
    /\ response.kind = "none"

\* C6: when model.predict raises, the request ends as an unhandled failure:
\* nothing is rendered, model.predict was called once, and every outcome of a
\* request is a full page or an unhandled failure.
C6_FailurePropagates ==
    /\ predictOut.raises =>
          /\ response = Unhandled
          /\ predictCalls = 1
    /\ response.kind = "unhandled" => predictOut.raises
    /\ response.kind \in {"none", "render", "unhandled"}
    /\ response.kind = "render" => response.stages = SixStages

C6_Witness ==
    /\ FilledPost
    /\ predictCalls = 1
    /\ predictOut.raises
    /\ response.kind = "unhandled"

\* C7: a create_features call returns what any earlier call with the same
\* date and stage returned, and no request changes model, start_date or
\* UNIQUE_STAGES.
C7_Idempotent ==
    /\ [](  (cfCalls = 1 /\ snap # <<>> /\ snap[1].args = cfArgs)
              => snap[1].ret = cfRet )
    /\ [][ pc = "serving" =>
             /\ model' = model
             /\ start_date' = start_date
             /\ UNIQUE_STAGES' = UNIQUE_STAGES ]_vars

\* A later request calls create_features with the date and stage of the
\* remembered call.
C7_Witness ==
    /\ cfCalls = 1
    /\ snap # <<>>
    /\ snap[1].later
    /\ snap[1].args = cfArgs
    /\ ~cfRet.data.none
    /\ snap[1].ret = cfRet

C9_IndexFresh ==
    request.route = "/" =>
        /\ response.kind = "render"
        /\ response.prediction_text = <<>>
        /\ response.stages =
             << <<"G", "e", "r", "m", "i", "n", "a", "t", "i", "o", "n">>, <<"S", "e", "e", "d", "l", "i", "n", "g">>, <<"V", "e", "g", "e", "t", "a", "t", "i", "v", "e", " ", "G", "r", "o", "w", "t", "h">>,
                <<"T", "a", "s", "s", "e", "l", "i", "n", "g", " ", "&", " ", "P", "o", "l", "l", "i", "n", "a", "t", "i", "o", "n">>, <<"G", "r", "a", "i", "n", " ", "F", "i", "l", "l", "i", "n", "g">>,
                <<"M", "a", "t", "u", "r", "i", "t", "y", " ", "&", " ", "H", "a", "r", "v", "e", "s", "t">> >>
        /\ cfCalls = 0
        /\ predictCalls = 0

\* GET / after a POST /predict that went as far as model.predict.
C9_Witness ==
    /\ request.route = "/"
    /\ snap # <<>>
    /\ snap[1].later
    /\ ~snap[1].ret.data.none
    /\ response.prediction_text = <<>>

\* The date texts that parse, among the years 2023 and 2024: the year in four
\* digits, then the month and the day of a calendar date, each with or without
\* its leading zero, the day also with a blank in place of it.
TakenTexts ==
    UNION { { Pad4(ymd[1]) \o <<"-">> \o mt \o <<"-">> \o dt :
                mt \in {Pad2(ymd[2]), Bare(ymd[2])},
                dt \in {Pad2(ymd[3]), Bare(ymd[3]), <<" ">> \o Bare(ymd[3])} } :
            ymd \in { x \in {2023, 2024} \X (1..12) \X (1..31) :
                        IsCalendarDate(x[1], x[2], x[3]) } }

\* C10: a POST /predict with both fields filled in and a date that parses
\* calls model.predict once, on a one-row record whose Stage is the submitted
\* stage unchanged, and on success answers with the sentence made of the
\* submitted stage, the submitted date and the first label returned; every
\* other request calls model.predict zero times.
C10_ClassifierInvokedOnce ==
    IF FilledPost /\ request.date_input.s \in TakenTexts
    THEN /\ predictCalls = 1
         /\ ~predictArg.none
         /\ Len(predictArg.rows) = 1
         /\ predictArg.rows[1].Stage = request.stage_input.s
         /\ ~predictOut.raises =>
               /\ response.kind = "render"
               /\ response.prediction_text =
                    <<"T", "h", "e", " ", "p", "r", "e", "d", "i", "c", "t", "e", "d", " ", "d", "i", "s", "e", "a", "s", "e", " ", "f", "o", "r", " ", "s", "t", "a", "g", "e", " ", "'">> \o request.stage_input.s
                    \o <<"'", " ", "o", "n", " ">> \o request.date_input.s \o <<" ", "i", "s", ":", " ">>
                    \o predictOut.output[1]
    ELSE predictCalls = 0

\* A stage outside the six labels reaches model.predict and is answered.
C10_Witness ==
    /\ FilledPost
    /\ request.stage_input = Str(<<"F", "l", "o", "w", "e", "r", "i", "n", "g">>)
    /\ request.date_input = Str(<<"2", "0", "2", "4", "-", "3", "-", "5">>)
    /\ predictCalls = 1
    /\ predictArg.rows[1].Stage = <<"F", "l", "o", "w", "e", "r", "i", "n", "g">>
    /\ response.kind = "render"

=============================================================================
